---- MODULE Spec2Model ----
(***************************************************************************)
(* A model of granola_sync.py: the pure converters (sanitize_filename,     *)
(* parse_prosemirror, extract_people, resolve_speaker_name,                *)
(* format_transcript) as operators, and main's loop over sync_document as  *)
(* a state machine over the output directory.                              *)
(*                                                                         *)
(* JSON values are tagged records: Null, Str(s), Obj(f), Arr(q).  A dict   *)
(* is a function from the keys it has; an absent key is absent from its    *)
(* domain.  A string is a sequence of one-character strings, so that       *)
(* replace, split and strip act on characters; only the tags the code      *)
(* compares with literals (a node's type, a segment's source) and the keys *)
(* of dicts are TLA+ strings.                                              *)
(***************************************************************************)
EXTENDS Integers, Sequences, FiniteSets, TLC

VARIABLES
    documents,   \* main: the batch returned by fetch_documents
    files,       \* the output directory: path -> content of each existing file
    dirs,        \* the year folders that exist under OUTPUT_DIR
    run,         \* which invocation of main this is
    idx,         \* main: position of the for loop in documents
    pc,          \* position inside sync_document / main
    local,       \* sync_document's locals for the current document
    outcome,     \* terminal state of each document in this run
    before,      \* the output directory as this run found it
    fetches,     \* whether fetch_transcript was called in this run, by position
    success_count,
    interrupted, \* paths whose file was open but unwritten when a run was killed
    call         \* the pure-function specification: function, argument, result

vars == <<documents, files, dirs, run, idx, pc, local, outcome, before,
          fetches,
          success_count, interrupted, call>>

syncVars == <<documents, files, dirs, run, idx, pc, local, outcome, before,
              fetches,
              success_count, interrupted>>

----------------------------------------------------------------------------
(* Bounds *)

MaxLen == 4
MaxMarks == 3
MaxAttendees == 2
MaxDocs == 2
MaxRuns == 2

----------------------------------------------------------------------------
(* JSON values *)

Null == [t |-> "null"]
Str(s) == [t |-> "str", v |-> s]
Obj(f) == [t |-> "obj", v |-> f]
Arr(q) == [t |-> "arr", v |-> q]
Num(n) == [t |-> "num", v |-> n]
Tag(s) == [t |-> "tag", v |-> s]
EmptyObj == Obj([k \in {} |-> Null])
EmptyArr == Arr(<<>>)

\* An exception propagating out of a function, and a value returned by one
\* that may raise.
Raise == [t |-> "raise"]
Ok(x) == [t |-> "ok", v |-> x]

\* Python truthiness of a JSON value.
Truthy(x) ==
    CASE x.t = "null" -> FALSE
      [] x.t = "str" -> Len(x.v) > 0
      [] x.t = "num" -> x.v # 0
      [] x.t = "obj" -> DOMAIN x.v # {}
      [] x.t = "arr" -> Len(x.v) > 0

\* dict.get(k, default) on a dict given as a function.
GetOr(f, k, default) == IF k \in DOMAIN f THEN f[k] ELSE default

\* x.get(k) on a JSON object.
Get(x, k) == GetOr(x.v, k, Null)

\* `x or y`
Or(x, y) == IF Truthy(x) THEN x ELSE y

\* An f-string's rendering of a value that is a string or None.
Fmt(x) == IF x.t = "str" THEN x.v ELSE <<"N", "o", "n", "e">>

----------------------------------------------------------------------------
(* sanitize_filename *)

Whitespace == {" ", "\t", "\n"}

RECURSIVE ReplacePair(_, _, _, _)
\* str.replace(a b, r) for a two-character pattern: leftmost, non-overlapping.
ReplacePair(s, a, b, r) ==
    IF Len(s) < 2 THEN s
    ELSE IF s[1] = a /\ s[2] = b
         THEN r \o ReplacePair(Tail(Tail(s)), a, b, r)
         ELSE <<s[1]>> \o ReplacePair(Tail(s), a, b, r)

RECURSIVE ReplaceChar(_, _, _)
\* str.replace(c, r) for a one-character pattern.
ReplaceChar(s, c, r) ==
    IF s = <<>> THEN <<>>
    ELSE (IF s[1] = c THEN r ELSE <<s[1]>>) \o ReplaceChar(Tail(s), c, r)

RECURSIVE Split(_, _)
\* str.split(): the maximal runs of non-whitespace; cur is the run being read.
Split(s, cur) ==
    IF s = <<>> THEN (IF cur = <<>> THEN <<>> ELSE <<cur>>)
    ELSE IF s[1] \in Whitespace
         THEN (IF cur = <<>> THEN <<>> ELSE <<cur>>) \o Split(Tail(s), <<>>)
         ELSE Split(Tail(s), Append(cur, s[1]))

RECURSIVE Join(_, _)
\* sep.join(words)
Join(words, sep) ==
    IF words = <<>> THEN <<>>
    ELSE IF Len(words) = 1 THEN words[1]
    ELSE words[1] \o sep \o Join(Tail(words), sep)

invalid_chars == <<"\"", "\\", "|", "?", "*">>

RECURSIVE StripInvalid(_, _)
\* the loop over invalid_chars, from its i-th character on
StripInvalid(name, i) ==
    IF i > Len(invalid_chars) THEN name
    ELSE StripInvalid(ReplaceChar(name, invalid_chars[i], <<"-">>), i + 1)

sanitize_filename(name) ==
    LET n1 == ReplacePair(name, "<", ">", <<"a", "n", "d">>)
        n2 == ReplaceChar(n1, ":", <<>>)
        n3 == ReplaceChar(n2, "/", <<"-">>)
        n4 == StripInvalid(n3, 1)
    IN  Join(Split(n4, <<>>), <<" ">>)

----------------------------------------------------------------------------
(* parse_prosemirror *)

\* The tag a value holds, "" when it holds none.
TagOf(x) == IF x.t = "tag" THEN x.v ELSE ""

RECURSIVE Repeat(_, _)
\* c * n
Repeat(c, n) == IF n <= 0 THEN <<>> ELSE <<c>> \o Repeat(c, n - 1)

RECURSIVE LStrip(_)
LStrip(s) == IF s # <<>> /\ s[1] \in Whitespace THEN LStrip(Tail(s)) ELSE s

RECURSIVE RStrip(_)
RStrip(s) ==
    IF s # <<>> /\ s[Len(s)] \in Whitespace
    THEN RStrip(SubSeq(s, 1, Len(s) - 1))
    ELSE s

\* str.strip()
Strip(s) == RStrip(LStrip(s))

\* The character U+0060, which a TLA+ string cannot hold.
Backtick == "U+0060"

RECURSIVE ApplyMarksNoReturn(_, _, _)
\* ApplyMarks with the link branch assigning to text instead of returning: the
\* marks after the link are applied around it.
ApplyMarksNoReturn(text, marks, i) ==
    IF i > Len(marks) THEN text
    ELSE LET mark == marks[i]
             m_type == TagOf(Get(mark, "type"))
             href == GetOr(GetOr(mark.v, "attrs", EmptyObj).v, "href", Str(<<>>))
             next ==
               CASE m_type = "bold" -> <<"*", "*">> \o text \o <<"*", "*">>
                 [] m_type = "italic" -> <<"*">> \o text \o <<"*">>
                 [] m_type = "code" -> <<Backtick>> \o text \o <<Backtick>>
                 [] m_type = "link" -> <<"[">> \o text \o <<"]",
                         "(">> \o Fmt(href) \o <<")">>
                 [] OTHER -> text
         IN  ApplyMarksNoReturn(next, marks, i + 1)

RECURSIVE ApplyMarks(_, _, _)
\* the loop over a text node's marks, from the i-th mark on
ApplyMarks(text, marks, i) ==
    IF i > Len(marks) THEN text
    ELSE LET mark == marks[i]
             m_type == TagOf(Get(mark, "type"))
         IN  CASE m_type = "bold" ->
                    ApplyMarks(<<"*", "*">> \o text \o <<"*", "*">>, marks,
                            i + 1)
               [] m_type = "italic" ->
                    ApplyMarks(<<"*">> \o text \o <<"*">>, marks, i + 1)
               [] m_type = "code" ->
                    ApplyMarks(<<Backtick>> \o text \o <<Backtick>>, marks, i + 1)
               [] m_type = "link" ->
                    LET href == GetOr(GetOr(mark.v, "attrs", EmptyObj).v,
                                      "href", Str(<<>>))
                    IN  <<"[">> \o text \o <<"]",
                            "(">> \o Fmt(href) \o <<")">>
               [] OTHER -> ApplyMarks(text, marks, i + 1)

RECURSIVE parse_prosemirror(_)
RECURSIVE ChildText(_, _)

\* ''.join(parse_prosemirror(child) for child in content), from the i-th child on
ChildText(content, i) ==
    IF i > Len(content) THEN <<>>
    ELSE parse_prosemirror(content[i]) \o ChildText(content, i + 1)

parse_prosemirror(node) ==
    IF node.t # "obj" THEN <<>>
    ELSE LET node_type == TagOf(GetOr(node.v, "type", Tag("")))
             content == GetOr(node.v, "content", EmptyArr)
             text == GetOr(node.v, "text", Str(<<>>))
             child_text == ChildText(content.v, 1)
         IN  CASE node_type = "doc" -> child_text
               [] node_type = "heading" ->
                    LET level == GetOr(GetOr(node.v, "attrs", EmptyObj).v,
                                       "level", Num(1))
                    IN  Repeat("#",
                            level.v) \o <<" ">> \o child_text \o <<"\n",
                            "\n">>
               [] node_type = "paragraph" -> child_text \o <<"\n", "\n">>
               [] node_type = "bulletList" -> child_text \o <<"\n">>
               [] node_type = "orderedList" -> child_text \o <<"\n">>
               [] node_type = "listItem" ->
                    <<"-", " ">> \o Strip(child_text) \o <<"\n">>
               [] node_type = "text" ->
                    ApplyMarks(text.v, GetOr(node.v, "marks", EmptyArr).v, 1)
               [] node_type = "horizontalRule" -> <<"\n", "-", "-", "-", "\n",
                       "\n">>
               [] OTHER -> child_text

----------------------------------------------------------------------------
(* extract_people *)

\* One pass of the loop over raw_attendees: the attendee's entry, Null for an
\* entry that is skipped, Raise when a .get is applied to a non-dict.
Attendee(att) ==
    IF att.t # "obj" THEN Null
    ELSE LET email == Get(att, "email")
             details == Or(Get(att, "details"), EmptyObj)
         IN  IF details.t # "obj" THEN Raise
             ELSE LET person == Or(Get(details, "person"), EmptyObj)
                  IN  IF person.t # "obj" THEN Raise
                      ELSE LET name_obj == Or(Get(person, "name"), EmptyObj)
                               name ==
                                 IF name_obj.t = "obj"
                                 THEN (IF Truthy(Get(name_obj, "fullName"))
                                       THEN Get(name_obj, "fullName")
                                       ELSE email)
                                 ELSE IF name_obj.t = "str" THEN name_obj
                                 ELSE email
                           IN  Obj([name |-> name, email |-> email])

RECURSIVE Attendees(_, _)
\* the loop over raw_attendees, from the i-th entry on
Attendees(raw, i) ==
    IF i > Len(raw) THEN Ok(<<>>)
    ELSE LET a == Attendee(raw[i])
             rest == Attendees(raw, i + 1)
         IN  IF a = Raise \/ rest = Raise THEN Raise
             ELSE IF a = Null THEN rest
             ELSE Ok(<<a.v>> \o rest.v)

extract_people(doc) ==
    LET people_data == Or(GetOr(doc, "people", Null), EmptyObj)
    IN  IF people_data.t # "obj" THEN Raise
        ELSE LET creator == Or(Get(people_data, "creator"), EmptyObj)
             IN  IF creator.t # "obj" THEN Raise
                 ELSE LET creator_info ==
                            [name |-> Or(Get(creator, "name"), Str(<<"M",
                                    "e">>)),
                             email |-> Get(creator, "email")]
                          raw_attendees ==
                            Or(Get(people_data, "attendees"), EmptyArr)
                          \* iterating a dict or a string yields no dict
                          attendees_info ==
                            IF raw_attendees.t = "arr"
                            THEN Attendees(raw_attendees.v, 1)
                            ELSE IF raw_attendees.t = "num" THEN Raise
                            ELSE Ok(<<>>)
                      IN  IF attendees_info = Raise THEN Raise
                          ELSE [t |-> "people", creator |-> creator_info,
                                attendees |-> attendees_info.v]

----------------------------------------------------------------------------
(* resolve_speaker_name, format_transcript *)

\* The result is the value the code returns: a string, or None when the sole
\* attendee has no name.
resolve_speaker_name(segment, creator_name, attendee_names) ==
    LET source == TagOf(Get(segment, "source"))
    IN  IF source = "microphone" THEN Or(creator_name, Str(<<"M", "e">>))
        ELSE IF source = "system"
             THEN (IF Len(attendee_names) = 1 THEN attendee_names[1]
                   ELSE IF Len(attendee_names) > 1
                        THEN Str(<<"R", "e", "m", "o", "t", "e", " ", "S",
                                "p", "e", "a", "k", "e", "r">>)
                        ELSE Str(<<"S", "p", "e", "a", "k", "e", "r">>))
             ELSE Str(<<"U", "n", "k", "n", "o", "w", "n">>)

RECURSIVE Segments(_, _, _, _)
\* the loop over transcript_data, from the i-th segment on
Segments(data, creator_name, attendee_names, i) ==
    IF i > Len(data) THEN <<>>
    ELSE LET segment == data[i]
             text == Get(segment, "text")
             rest == Segments(data, creator_name, attendee_names, i + 1)
         IN  IF Truthy(text)
             THEN LET name == resolve_speaker_name(segment, creator_name,
                                                   attendee_names)
                  IN  <<<<"*", "*">> \o Fmt(name) \o <<"*", "*", ":",
                          " ">> \o Fmt(text)>> \o rest
             ELSE rest

TranscriptHeading == <<"\n", "\n", "-", "-", "-", "\n", "#", "#", " ", "F",
        "u", "l", "l", " ", "T", "r", "a", "n", "s", "c", "r", "i", "p", "t",
        "\n", "\n">>

format_transcript(transcript_data, creator_name, attendee_names) ==
    IF ~Truthy(transcript_data) THEN <<>>
    ELSE LET segments == Segments(transcript_data.v, creator_name,
                                  attendee_names, 1)
         IN  IF segments = <<>> THEN <<>>
             ELSE TranscriptHeading \o Join(segments, <<"\n", "\n">>)

----------------------------------------------------------------------------
(* The pure functions, each applied to an argument drawn from a bounded set *)

SeqsUpTo(S, n) == UNION {[1..k -> S] : k \in 0..n}

TitleChars == {"a", "<", ">", ":", "/", "?", " ", "\n"}

\* The title of the specification's example.
ExampleTitle == <<"Q", "3", ":", "P", "l", "a", "n", "/", "R", "e", "v", "i",
        "e", "w", " ", "<", ">", " ", "O", "p", "s">>

Titles == SeqsUpTo(TitleChars, MaxLen) \cup {ExampleTitle}

MarkValues ==
    { Obj([type |-> Tag("bold")]),
      Obj([type |-> Tag("italic")]),
      Obj([type |-> Tag("code")]),
      Obj([type |-> Tag("link"), attrs |-> Obj([href |-> Str(<<"u">>)])]),
      Obj([type |-> Tag("link")]) }

TextNode(marks) ==
    Obj([type |-> Tag("text"), text |-> Str(<<"t">>), marks |-> Arr(marks)])

TextNodes == {TextNode(marks) : marks \in SeqsUpTo(MarkValues, MaxMarks)}

PlainText == Obj([type |-> Tag("text"), text |-> Str(<<" ", "t", " ">>)])

ContainerNodes ==
    { Obj([type |-> Tag("doc"), content |-> Arr(<<PlainText>>)]),
      Obj([type |-> Tag("heading"), content |-> Arr(<<PlainText>>)]),
      Obj([type |-> Tag("heading"), attrs |-> Obj([level |-> Num(2)])]),
      Obj([type |-> Tag("paragraph"), content |-> Arr(<<PlainText, PlainText>>)]),
      Obj([type |-> Tag("bulletList"), content |->
             Arr(<<Obj([type |-> Tag("listItem"), content |->
                          Arr(<<Obj([type |-> Tag("paragraph"), content |->
                                       Arr(<<PlainText>>)])>>)])>>)]),
      Obj([type |-> Tag("orderedList")]),
      Obj([type |-> Tag("horizontalRule")]),
      Obj([type |-> Tag("table"), content |-> Arr(<<PlainText>>)]),
      Str(<<"t">>) }

Nodes == TextNodes \cup ContainerNodes

AttendeeValues ==
    { EmptyObj,
      Obj([email |-> Str(<<"a", "@", "x">>)]),
      Obj([email |-> Null, details |-> Obj([person |->
             Obj([name |-> Obj([fullName |-> Str(<<"A", "n", "n">>)])])])]),
      Obj([email |-> Str(<<"b", "@", "x">>), details |-> Obj([person |->
             Obj([name |-> Obj([fullName |-> Str(<<>>)])])])]),
      Obj([details |-> Obj([person |-> Obj([name |-> Str(<<"B", "o">>)])])]),
      Str(<<"a", "@", "x">>) }

CreatorValues ==
    { Null,
      Obj([name |-> Str(<<"M", "a", "x">>), email |-> Str(<<"m", "@",
              "x">>)]),
      Obj([name |-> Str(<<>>)]),
      Obj([email |-> Str(<<"m", "@", "x">>)]) }

PeopleValues ==
    { Obj([creator |-> c, attendees |-> Arr(a)]) :
          c \in CreatorValues, a \in SeqsUpTo(AttendeeValues, MaxAttendees) }
    \cup { Null, Obj([attendees |-> Null]), Str(<<"x">>) }

\* Documents as far as extract_people reads them.
PeopleDocs == {[people |-> p] : p \in PeopleValues} \cup {[id |-> Str(<<"d">>)]}

SegmentValues ==
    { Obj([source |-> Tag("microphone"), text |-> Str(<<"H", "i">>)]),
      Obj([source |-> Tag("system"), text |-> Str(<<"H", "i">>)]),
      Obj([source |-> Tag("other"), text |-> Str(<<"H", "i">>)]),
      Obj([text |-> Str(<<"H", "i">>)]) }

NoCall == [fn |-> "none"]

\* A call of fn about to be made with argument arg.
Call(fn, arg) == [fn |-> fn, arg |-> arg, done |-> FALSE, ret |-> <<>>]

\* The documents extract_people does not raise on.
ResolvableDocs == PeopleDocs \ {[people |-> Str(<<"x">>)]}

\* [a['name'] for a in people['attendees']]
AttendeeNames(people) == [i \in 1..Len(people.attendees) |-> people.attendees[i].name]

Return(value) == call' = [call EXCEPT !.ret = value, !.done = TRUE]

CallSanitize ==
    /\ call.fn = "sanitize_filename" /\ ~call.done
    /\ Return(sanitize_filename(call.arg))
    /\ UNCHANGED syncVars

CallParse ==
    /\ call.fn = "parse_prosemirror" /\ ~call.done
    /\ Return(parse_prosemirror(call.arg))
    /\ UNCHANGED syncVars

CallExtract ==
    /\ call.fn = "extract_people" /\ ~call.done
    /\ Return(extract_people(call.arg))
    /\ UNCHANGED syncVars

\* sync_document's use of the resolver: the names come from extract_people.
CallResolve ==
    /\ call.fn = "resolve_speaker_name" /\ ~call.done
    /\ LET people == extract_people(call.arg[1])
       IN  Return(resolve_speaker_name(call.arg[2], people.creator.name,
                                       AttendeeNames(people)))
    /\ UNCHANGED syncVars

----------------------------------------------------------------------------
(* sync_document: the pure parts *)

Digits == {"0", "1", "2", "3", "4", "5", "6", "7", "8", "9"}

\* A timestamp with every digit replaced by "d".
Shape(s) == [i \in 1..Len(s) |-> IF s[i] \in Digits THEN "d" ELSE s[i]]

IsoShapes ==
    { <<"d", "d", "d", "d", "-", "d", "d", "-", "d", "d">>, <<"d", "d", "d",
            "d", "-", "d", "d", "-", "d", "d", "T", "d", "d", ":", "d", "d",
            ":", "d", "d">>, <<"d", "d", "d", "d", "-", "d", "d", "-", "d",
            "d", "T", "d", "d", ":", "d", "d", ":", "d", "d", "+", "d", "d",
            ":", "d", "d">> }

RECURSIVE DropZeros(_)
\* str(int(s)) for a string of digits
DropZeros(s) == IF Len(s) > 1 /\ s[1] = "0" THEN DropZeros(Tail(s)) ELSE s

\* datetime.fromisoformat(s), for the date, date-time and date-time-offset
\* forms: the date prefix and the year it yields, or Raise (ValueError).
fromisoformat(s) ==
    IF /\ Shape(s) \in IsoShapes
       /\ SubSeq(s, 1, 4) # <<"0", "0", "0", "0">>
       /\ \/ s[6] = "0" /\ s[7] # "0"
          \/ s[6] = "1" /\ s[7] \in {"0", "1", "2"}
       /\ \/ s[9] = "0" /\ s[10] # "0"
          \/ s[9] \in {"1", "2"}
          \/ s[9] = "3" /\ s[10] \in {"0", "1"}
    THEN [t |-> "datetime", date_prefix |-> SubSeq(s, 1, 10),
          year_folder |-> DropZeros(SubSeq(s, 1, 4))]
    ELSE Raise

\* Lines 239-249: the date prefix and the year folder of a document.
DateOf(doc) ==
    LET created_at_str == GetOr(doc, "created_at", Str(<<>>))
        sentinel == [t |-> "datetime", date_prefix |-> <<"0", "0", "0", "0",
                "-", "0", "0", "-", "0", "0">>,
                     year_folder |-> <<"U", "n", "k", "n", "o", "w", "n", "_",
                             "Y", "e", "a", "r">>]
    IN  IF Truthy(created_at_str)
        THEN LET dt == fromisoformat(ReplaceChar(created_at_str.v, "Z", <<"+",
                "0", "0", ":", "0", "0">>))
             IN  IF dt = Raise THEN sentinel ELSE dt
        ELSE sentinel

\* doc.get("title", "Untitled")
TitleOf(doc) == GetOr(doc, "title", Str(<<"U", "n", "t", "i", "t", "l", "e",
        "d">>))

\* Line 260: the file name, or Raise when the title is not a string
\* (sanitize_filename calls title.replace).
FilenameOf(doc) ==
    IF TitleOf(doc).t # "str" THEN Raise
    ELSE Ok(DateOf(doc).date_prefix \o <<" ">>
            \o sanitize_filename(TitleOf(doc).v) \o <<".", "m", "d">>)

\* Lines 252, 261: target_dir / filename
PathOf(doc) == <<DateOf(doc).year_folder, FilenameOf(doc).v>>

\* Lines 271-276
NotesOf(doc) ==
    LET panel == GetOr(doc, "last_viewed_panel", Null)
    IN  IF panel.t = "obj"
        THEN LET content == Get(panel, "content")
             IN  IF content.t = "obj" /\ TagOf(Get(content, "type")) = "doc"
                 THEN parse_prosemirror(content)
                 ELSE <<>>
        ELSE <<>>

\* One participant's entry of the frontmatter (lines 297-299, 302-304).
Participant(p) ==
    <<" ", " ", "-", " ", "n", "a", "m", "e", ":", " ",
            "\"">> \o Fmt(p.name) \o <<"\"", "\n">>
    \o (IF Truthy(p.email) THEN <<" ", " ", " ", " ", "e", "m", "a", "i", "l",
            ":", " ", "\"">> \o Fmt(p.email) \o <<"\"", "\n">>
        ELSE <<>>)

RECURSIVE Participants(_, _)
Participants(attendees, i) ==
    IF i > Len(attendees) THEN <<>>
    ELSE Participant(attendees[i]) \o Participants(attendees, i + 1)

\* Lines 288-306
Frontmatter(doc, people) ==
    LET safe_title == ReplaceChar(TitleOf(doc).v, "\"", <<"\\", "\"">>)
    IN  <<"-", "-", "-", "\n">>
        \o <<"g", "r", "a", "n", "o", "l", "a", "_", "i", "d", ":",
                " ">> \o Fmt(GetOr(doc, "id", Null)) \o <<"\n">>
        \o <<"t", "i", "t", "l", "e", ":", " ",
                "\"">> \o safe_title \o <<"\"", "\n">>
        \o <<"c", "r", "e", "a", "t", "e", "d", "_", "a", "t", ":",
                " ">> \o Fmt(GetOr(doc, "created_at", Str(<<>>))) \o <<"\n">>
        \o <<"p", "a", "r", "t", "i", "c", "i", "p", "a", "n", "t", "s", ":",
                "\n">>
        \o Participant(people.creator)
        \o Participants(people.attendees, 1)
        \o <<"-", "-", "-", "\n", "\n">>

\* fetch_transcript without its except clause: a RequestException propagates.
fetch_transcript_uncaught(response) ==
    IF response.error THEN Raise
    ELSE IF response.status = 404 THEN Null
    ELSE IF response.status >= 400 THEN Raise
    ELSE response.body

\* fetch_transcript, given what requests.post does: raises a RequestException
\* (error), or returns a response with a status and a JSON body.
fetch_transcript(response) ==
    IF response.error THEN Null
    ELSE IF response.status = 404 THEN Null
    ELSE IF response.status >= 400 THEN Null
    ELSE response.body

\* Lines 271-308: full_content, or Raise when a step raises.
FullContent(doc, response) ==
    LET markdown_notes == NotesOf(doc)
        transcript_data == fetch_transcript(response)
        people == extract_people(doc)
    IN  IF transcript_data = Raise \/ people = Raise THEN Raise
        ELSE IF TitleOf(doc).t # "str" THEN Raise  \* line 289: title.replace
        ELSE Ok(Frontmatter(doc, people) \o markdown_notes
                \o format_transcript(transcript_data, people.creator.name,
                                     AttendeeNames(people)))

----------------------------------------------------------------------------
(* main and sync_document as a state machine *)

Hi == Obj([source |-> Tag("microphone"), text |-> Str(<<"H", "i">>)])
Yo == Obj([source |-> Tag("system"), text |-> Str(<<"Y", "o">>)])

\* What the transcript endpoint may answer.
Responses ==
    { [error |-> FALSE, status |-> 200, body |-> Arr(<<Hi, Yo>>)],
      [error |-> FALSE, status |-> 404, body |-> Null],
      [error |-> FALSE, status |-> 500, body |-> Null],
      [error |-> TRUE, status |-> 0, body |-> Null] }

NoFetch == [error |-> FALSE, status |-> 0, body |-> Null]

Panel == Obj([content |-> Obj([type |-> Tag("doc"), content |->
            Arr(<<Obj([type |-> Tag("paragraph"), content |->
                         Arr(<<PlainText>>)])>>)])])

\* The document records a batch is drawn from.
DocPool ==
    { [id |-> Str(<<"d", "1">>), title |-> Str(<<"a", "/", "b">>),
       created_at |-> Str(<<"2", "0", "2", "5", "-", "0", "3", "-", "0", "4",
               "T", "1", "0", ":", "0", "0", ":", "0", "0", "Z">>),
       people |-> Obj([creator |-> Obj([name |-> Str(<<"M", "a", "x">>)]),
                       attendees |-> Arr(<<Obj([email |-> Str(<<"a", "@",
                               "x">>)])>>)]),
       last_viewed_panel |-> Panel],
      [id |-> Str(<<"d", "2">>), title |-> Str(<<"a", "-", "b">>),
       created_at |-> Str(<<"2", "0", "2", "5", "-", "0", "3", "-", "0",
               "4">>)],
      [title |-> Str(<<"c">>), created_at |-> Str(<<"2", "0", "2", "5", "-",
              "0", "3", "-", "0", "4">>)],
      [id |-> Str(<<"d", "4">>), title |-> Null, created_at |-> Str(<<"2",
              "0", "2", "4", "-", "0", "1", "-", "0", "2">>)],
      [id |-> Str(<<"d", "5">>), title |-> Str(<<"e">>),
              people |-> Str(<<"x">>)],
      [id |-> Str(<<"d", "6">>), created_at |-> Str(<<"s", "o", "o", "n">>),
       people |-> Obj([attendees |-> Arr(<<EmptyObj>>)])] }

Batches == UNION {[1..k -> DocPool] : k \in 1..MaxDocs}

\* What sync_document derives from a document alone, computed once for each
\* document of the pool.
\* A function as the table of its values.
Table(f) == f @@ <<>>

dateOf == Table([doc \in DocPool |-> DateOf(doc)])

filenameOf == Table([doc \in DocPool |-> FilenameOf(doc)])

pathOf ==
    Table([doc \in DocPool |->
             IF FilenameOf(doc) = Raise THEN <<>> ELSE PathOf(doc)])

fullContent ==
    Table([doc \in DocPool, response \in Responses |->
             FullContent(doc, response)])

NoLocal == [path |-> <<>>, response |-> NoFetch, content |-> <<>>]

Pending == [state |-> "PENDING", log |-> ""]

\* An existence check made in OUTPUT_DIR instead of the year folder.
ExistsInRoot(path) == <<<<>>, path[2]>> \in DOMAIN files

\* An existence check that takes an empty file for a missing one.
ExistsNonEmpty(path) == path \in DOMAIN files /\ files[path] # <<>>

\* Line 264: filepath.exists()
Exists(path) == path \in DOMAIN files

\* Finish without main's except clause: an exception ends the run.
FinishUncaught(state, log) ==
    /\ outcome' = [outcome EXCEPT ![idx] = [state |-> state, log |-> log]]
    /\ success_count' =
         IF state \in {"SKIPPED", "WRITTEN"} THEN success_count + 1
         ELSE success_count
    /\ idx' = IF log = "CRITICAL ERROR" THEN idx ELSE idx + 1
    /\ pc' = IF log = "CRITICAL ERROR" THEN "crashed" ELSE "main"
    /\ local' = NoLocal

\* The end of one pass of main's loop: the document's terminal state, with
\* what was logged for it; a true result is counted.
Finish(state, log) ==
    /\ outcome' = [outcome EXCEPT ![idx] = [state |-> state, log |-> log]]
    /\ success_count' =
         IF state \in {"SKIPPED", "WRITTEN"} THEN success_count + 1
         ELSE success_count
    /\ idx' = idx + 1
    /\ pc' = "main"
    /\ local' = NoLocal

\* Lines 260-266, once the year folder exists: the path and the existence
\* check.  A title that is not a string raises, which main catches.
CheckExists(doc) ==
    IF filenameOf[doc] = Raise
    THEN Finish("FAILED", "CRITICAL ERROR")
    ELSE IF Exists(pathOf[doc])
    THEN Finish("SKIPPED", "Skipping existing")
    ELSE /\ pc' = "download"
         /\ local' = [local EXCEPT !.path = pathOf[doc]]
         /\ UNCHANGED <<outcome, success_count, idx>>

\* Lines 337-339, 232-266: the loop takes the next document; sync_document
\* rejects it without an id, derives its folder and creates it when missing,
\* and skips the document when its file exists.
Begin ==
    /\ pc = "main" /\ idx <= Len(documents)
    /\ LET doc == documents[idx]
           target_dir == dateOf[doc].year_folder
       IN  IF ~Truthy(GetOr(doc, "id", Null))
           THEN Finish("FAILED", "") /\ UNCHANGED dirs
           ELSE IF target_dir \in dirs
           THEN CheckExists(doc) /\ UNCHANGED dirs
           ELSE \/ /\ dirs' = dirs \cup {target_dir}
                   /\ CheckExists(doc)
                \/ /\ Finish("FAILED", "Failed to create directory")
                   /\ UNCHANGED dirs
    /\ UNCHANGED <<documents, files, run, before, fetches, interrupted, call>>

\* Lines 268-308: notes, the transcript fetch, participants, frontmatter.
Download ==
    /\ pc = "download"
    /\ \E response \in Responses :
         LET full_content == fullContent[documents[idx], response]
         IN  /\ fetches' = [fetches EXCEPT ![idx] = TRUE]
             /\ IF full_content = Raise
                THEN Finish("FAILED", "CRITICAL ERROR")
                ELSE /\ pc' = "open"
                     /\ local' = [local EXCEPT !.response = response,
                                               !.content = full_content.v]
                     /\ UNCHANGED <<outcome, success_count, idx>>
    /\ UNCHANGED <<documents, files, dirs, run, before, interrupted, call>>

\* Line 312: open(filepath, 'w') creates the file empty, or fails.
Open ==
    /\ pc = "open"
    /\ \/ /\ files' = (local.path :> <<>>) @@ files
          /\ pc' = "write"
          /\ UNCHANGED <<outcome, success_count, idx, local>>
       \/ /\ Finish("FAILED", "Failed to write")
          /\ UNCHANGED files
    /\ UNCHANGED <<documents, dirs, run, before, fetches, interrupted, call>>

\* Lines 313-317: the content is written and the file closed, or the write
\* fails and leaves the file as open made it.
Write ==
    /\ pc = "write"
    /\ \/ /\ files' = (local.path :> local.content) @@ files
          /\ Finish("WRITTEN", "")
       \/ /\ Finish("FAILED", "Failed to write")
          /\ UNCHANGED files
    /\ UNCHANGED <<documents, dirs, run, before, fetches, interrupted, call>>

\* Line 345: the loop is over.
EndRun ==
    /\ pc = "main" /\ idx > Len(documents)
    /\ pc' = "done"
    /\ UNCHANGED <<documents, files, dirs, run, idx, local, outcome,
                   before, fetches, success_count, interrupted, call>>

\* The program is invoked again: same remote documents, same output directory.
NextRun ==
    /\ pc \in {"done", "killed"} /\ run < MaxRuns
    /\ run' = run + 1
    /\ before' = files
    /\ outcome' = [i \in 1..Len(documents) |-> Pending]
    /\ fetches' = [i \in 1..Len(documents) |-> FALSE]
    /\ success_count' = 0
    /\ idx' = 1
    /\ pc' = "main"
    /\ local' = NoLocal
    /\ UNCHANGED <<documents, files, dirs, interrupted, call>>

\* The process is killed in the middle of a run.
Kill ==
    /\ pc \in {"main", "download", "open", "write"}
    /\ pc' = "killed"
    /\ interrupted' = IF pc = "write" THEN interrupted \cup {local.path}
                      ELSE interrupted
    /\ local' = NoLocal
    /\ UNCHANGED <<documents, files, dirs, run, idx, outcome, before,
                   fetches, success_count, call>>

SyncInit ==
    /\ documents \in Batches
    /\ files = <<>>
    /\ dirs = {}
    /\ run = 1
    /\ idx = 1
    /\ pc = "main"
    /\ local = NoLocal
    /\ outcome = [i \in 1..Len(documents) |-> Pending]
    /\ before = <<>>
    /\ fetches = [i \in 1..Len(documents) |-> FALSE]
    /\ success_count = 0
    /\ interrupted = {}

Init == SyncInit /\ call = NoCall

Next == Begin \/ Download \/ Open \/ Write \/ EndRun \/ NextRun

Spec == Init /\ [][Next]_vars

\* The loop runs on while it can: nothing but a kill stops the process.
FairSpec == Init /\ [][Next]_vars /\ WF_vars(Next)

KillSpec == Init /\ [][Next \/ Kill]_vars

PureInit ==
    /\ \/ \E a \in Titles : call = Call("sanitize_filename", a)
       \/ \E a \in Nodes : call = Call("parse_prosemirror", a)
       \/ \E a \in PeopleDocs : call = Call("extract_people", a)
       \/ \E d \in ResolvableDocs, g \in SegmentValues :
            call = Call("resolve_speaker_name", <<d, g>>)
    /\ documents = <<>>
    /\ files = <<>>
    /\ dirs = {}
    /\ run = 1
    /\ idx = 1
    /\ pc = "done"
    /\ local = NoLocal
    /\ outcome = <<>>
    /\ before = <<>>
    /\ fetches = <<>>
    /\ success_count = 0
    /\ interrupted = {}

PureNext == CallSanitize \/ CallParse \/ CallExtract \/ CallResolve

PureSpec == PureInit /\ [][PureNext]_vars

----------------------------------------------------------------------------
(* Claims about the pure functions, under PureSpec *)

Returned(fn) == call.fn = fn /\ call.done

\* The index of the first link mark, 0 when there is none.
FirstLink(marks) ==
    IF \E i \in 1..Len(marks) : TagOf(Get(marks[i], "type")) = "link"
    THEN CHOOSE i \in 1..Len(marks) :
           /\ TagOf(Get(marks[i], "type")) = "link"
           /\ \A j \in 1..(i - 1) : TagOf(Get(marks[j], "type")) # "link"
    ELSE 0

\* The href the link mark carries, empty when it carries none.
HrefOf(mark) ==
    IF "attrs" \in DOMAIN mark.v /\ "href" \in DOMAIN mark.v.attrs.v
    THEN mark.v.attrs.v.href.v
    ELSE <<>>

\* The delimiter of a decoration.
Delimiter(mark) ==
    CASE mark.v.type.v = "bold" -> <<"*", "*">>
      [] mark.v.type.v = "italic" -> <<"*">>
      [] mark.v.type.v = "code" -> <<Backtick>>
      [] OTHER -> <<>>

RECURSIVE Decorated(_, _)
\* The value wrapped in the decorations of marks, the first mark innermost.
Decorated(value, marks) ==
    IF marks = <<>> THEN value
    ELSE LET last == marks[Len(marks)]
             inner == Decorated(value, SubSeq(marks, 1, Len(marks) - 1))
         IN  Delimiter(last) \o inner \o Delimiter(last)

IsLinkedText(node) ==
    /\ node.t = "obj"
    /\ TagOf(Get(node, "type")) = "text"
    /\ FirstLink(Get(node, "marks").v) > 0

HasPair(s, a, b) == \E i \in 1..(Len(s) - 1) : s[i] = a /\ s[i + 1] = b

HasChar(s, c) == \E i \in 1..Len(s) : s[i] = c

\* C6: no rule of the sanitizer re-introduces what an earlier rule removed: the
\* result holds no "<>" pair, no colon, no slash, none of the characters
\* " \ | ? *, no whitespace but single spaces, and none at either end.
C6_SanitizedIsClean ==
    Returned("sanitize_filename") =>
        /\ ~HasPair(call.ret, "<", ">")
        /\ \A c \in {":", "/", "\"", "\\", "|", "?", "*", "\t", "\n"} :
             ~HasChar(call.ret, c)
        /\ ~HasPair(call.ret, " ", " ")
        /\ call.ret # <<>> => call.ret[1] # " " /\ call.ret[Len(call.ret)] # " "

\* C7: every Person the extractor produces has a non-empty display name, the
\* creator and each attendee.
C7_NamesNonEmpty ==
    (Returned("extract_people") /\ call.ret # Raise) =>
        /\ Truthy(call.ret.creator.name)
        /\ \A i \in 1..Len(call.ret.attendees) :
             Truthy(call.ret.attendees[i].name)

\* C8: for a segment tagged system the resolved speaker is the one known
\* attendee name, "Remote Speaker" when more than one name is known and
\* "Speaker" when none is, an attendee without name and email contributing no
\* known name.
C8_SystemSpeaker ==
    (Returned("resolve_speaker_name")
       /\ TagOf(Get(call.arg[2], "source")) = "system") =>
        LET IsKnown(n) == Truthy(n)
            known == SelectSeq(AttendeeNames(extract_people(call.arg[1])), IsKnown)
        IN  call.ret = IF Len(known) = 1 THEN known[1]
                       ELSE IF Len(known) > 1 THEN Str(<<"R", "e", "m", "o",
                               "t", "e", " ", "S", "p", "e", "a", "k", "e",
                               "r">>)
                       ELSE Str(<<"S", "p", "e", "a", "k", "e", "r">>)

----------------------------------------------------------------------------
(* Claims about the sync, under Spec, FairSpec and KillSpec *)

HasId(doc) == Truthy(GetOr(doc, "id", Null))

\* The document has an id and a path (its title is a string).
HasPath(doc) == HasId(doc) /\ FilenameOf(doc) # Raise

\* A file is at the document's path.
HasFile(doc) == HasPath(doc) /\ PathOf(doc) \in DOMAIN files

Terminal == {"SKIPPED", "WRITTEN", "FAILED"}

Contains(s, pat) ==
    \E k \in 1..(Len(s) - Len(pat) + 1) : SubSeq(s, k, k + Len(pat) - 1) = pat

NoFetches == \A i \in 1..Len(documents) : ~fetches[i]

\* C1 as stated: whatever the first run's outcomes were, a later run of the
\* same batch fetches no transcript and changes no file.
C1_SecondRunIdle == run >= 2 => (NoFetches /\ files = before)

\* When the run began, a file was at the path of every document that has an id
\* and a string title: each had ended SKIPPED or WRITTEN, or FAILED after its
\* file was opened.
AllMaterialized ==
    \A i \in 1..Len(documents) :
        HasPath(documents[i]) => PathOf(documents[i]) \in DOMAIN before

\* C1 amended: a later run of the same batch fetches no transcript and changes
\* no file, provided that the run before it left a file at the path of every
\* document that has an id and a string title.
C1_SecondRunIdleWhenMaterialized ==
    (run >= 2 /\ AllMaterialized) => (NoFetches /\ files = before)

\* C1's case: the second run is over; a document written in the first run and
\* one that failed in it after its file was opened were both skipped.
C1_Witness ==
    /\ run = 2 /\ pc = "done" /\ AllMaterialized
    /\ \E i, j \in 1..Len(documents) :
         /\ HasPath(documents[i]) /\ before[PathOf(documents[i])] # <<>>
         /\ outcome[i].state = "SKIPPED"
         /\ HasPath(documents[j]) /\ before[PathOf(documents[j])] = <<>>
         /\ outcome[j].state = "SKIPPED"

\* C2: while sync_document handles a document that has an id and a file at its
\* path, no file changes and no transcript is fetched, and the document ends
\* SKIPPED, counted as a success.
C2_SkipOnExistence ==
    [][(pc = "main" /\ idx <= Len(documents) /\ HasFile(documents[idx])) =>
         /\ files' = files
         /\ fetches' = fetches
         /\ pc' = "main" /\ idx' = idx + 1
         /\ outcome'[idx].state = "SKIPPED"
         /\ success_count' = success_count + 1]_vars

\* C2's case: a document was skipped over a file that holds another content
\* than its own would be.
C2_Witness ==
    \E i \in 1..Len(documents) :
        /\ outcome[i].state = "SKIPPED"
        /\ ~fetches[i]
        /\ files[PathOf(documents[i])] = <<>>

AllTerminal == \A i \in 1..Len(documents) : outcome[i].state \in Terminal

\* C3: every run of main ends, with every document of the batch in a terminal
\* state, whatever failed on the way.
C3_EveryRunCompletes == (pc = "main") ~> (pc = "done" /\ AllTerminal)

\* C3's case: the first document failed by an exception, the second by its
\* write, and the run went on to its end.
C3_Witness ==
    /\ pc = "done" /\ Len(documents) = 2
    /\ outcome[1] = [state |-> "FAILED", log |-> "CRITICAL ERROR"]
    /\ outcome[2].state \in {"WRITTEN", "SKIPPED"}

FetchFailed(response) == response.error \/ response.status # 200

\* C4: whatever the transcript fetch returns, the document goes on to its
\* write unless the people extractor raises; when the write succeeds the
\* document ends WRITTEN, and its file holds the frontmatter and the notes,
\* with a transcript section only when the fetch returned segments.
C4_FetchNeverFails ==
    [][/\ (pc = "download" /\ extract_people(documents[idx]) # Raise) =>
            (pc' = "open" /\ idx' = idx /\ outcome' = outcome)
       /\ (pc = "write" /\ files' # files) =>
            LET doc == documents[idx]
                content == files'[PathOf(doc)]
            IN  /\ outcome'[idx].state = "WRITTEN"
                /\ Contains(content, <<"g", "r", "a", "n", "o", "l", "a", "_",
                        "i", "d", ":", " ">>)
                /\ Contains(content, <<"#", "#", " ", "F", "u", "l", "l", " ",
                        "T", "r", "a", "n", "s", "c", "r", "i", "p", "t">>)
                     <=> ~FetchFailed(local.response)
                /\ FetchFailed(local.response) =>
                     content = Frontmatter(doc, extract_people(doc))
                               \o NotesOf(doc)]_vars

\* C4's case: a document whose transcript was fetched ended WRITTEN with a
\* file that has no transcript section, while another's was written with one.
C4_Witness ==
    \E i, j \in 1..Len(documents) :
        /\ outcome[i].state = "WRITTEN" /\ fetches[i]
        /\ ~Contains(files[PathOf(documents[i])], <<"#", "#", " ", "F", "u",
                "l", "l", " ", "T", "r", "a", "n", "s", "c", "r", "i", "p",
                "t">>)
        /\ outcome[j].state = "WRITTEN" /\ fetches[j]
        /\ Contains(files[PathOf(documents[j])], <<"#", "#", " ", "F", "u",
                "l", "l", " ", "T", "r", "a", "n", "s", "c", "r", "i", "p",
                "t">>)

\* C9: two documents with different ids never share a path, so none is skipped
\* over the file written for the other in the same run.
C9_NoSharedPath ==
    \A i, j \in 1..Len(documents) :
        (/\ i < j
         /\ HasPath(documents[i]) /\ HasPath(documents[j])
         /\ documents[i].id # documents[j].id
         /\ outcome[i].state = "WRITTEN")
        => ~(PathOf(documents[i]) = PathOf(documents[j])
             /\ outcome[j].state = "SKIPPED")

\* C10: once a run was killed between the opening and the writing of a file,
\* the file stays as it was left, and every later pass over a document with
\* that path fetches nothing and ends SKIPPED.
C10_InterruptedWriteIsPermanent ==
    [][/\ \A p \in interrupted : p \in DOMAIN files' /\ files'[p] = <<>>
       /\ (pc = "main" /\ idx <= Len(documents)
             /\ HasPath(documents[idx])
             /\ PathOf(documents[idx]) \in interrupted) =>
            /\ fetches' = fetches
            /\ pc' \in {"main", "killed"}
            /\ idx' # idx => outcome'[idx].state = "SKIPPED"]_vars

\* C10's case: a later run skipped the document whose write was interrupted.
C10_Witness ==
    \E i \in 1..Len(documents) :
        /\ run >= 2
        /\ HasPath(documents[i]) /\ PathOf(documents[i]) \in interrupted
        /\ outcome[i].state = "SKIPPED"
        /\ ~fetches[i]
        /\ files[PathOf(documents[i])] = <<>>

====
